---------------------------- MODULE Spec2Model ----------------------------
(***************************************************************************)
(* Dependency-graph builder, cycle detector, metrics engine and risk       *)
(* banding of code_analyser (src/src/graph_builder.py, src/src/metrics.py, *)
(* src/src/attack_surface.py).                                             *)
(*                                                                         *)
(* Strings are sequences of atoms.  The atoms are "/", ".", "py",          *)
(* "__init__" and a few names ("a", "pkg", ...).  No atom is a proper      *)
(* prefix of another one and the patterns the code searches for ('.py',    *)
(* '/__init__', '/', '.') are sequences of atoms that cannot straddle an   *)
(* atom boundary, so replace / split / endswith on atom sequences agree    *)
(* with the same operations on the Python strings they spell.              *)
(*                                                                         *)
(* Floats are exact rationals [num, den]; on the values enumerated here    *)
(* (k/20, degree/(n-1), distances 0..7) the IEEE results of the code's     *)
(* comparisons equal the exact ones.                                       *)
(***************************************************************************)
EXTENDS Integers, Sequences, FiniteSets, TLC

VARIABLES
    dependencies,   \* the map handed to build_graph: sequence of [module, deps]
    nodes,          \* self.graph nodes, in insertion order
    edges,          \* self.graph edges, a set of <<source, target>>
    builds,         \* number of build_graph calls made on this GraphBuilder
    graph_info,     \* last result of get_graph_info, if any
    cycles,         \* last result of detect_cycles, if any
    metrics,        \* last result of calculate_all_metrics, if any
    metrics_prev,   \* the result of the call before it, if any
    risk_in,        \* last arguments of _calculate_risk_level, if any
    risk_level,     \* its last result, if any
    entry_points,   \* self.entry_points: sequence of [module, entries], in insertion order
    attack_surface, \* self.attack_surface: the list of records
    surface_calls,  \* number of calculate_attack_surface calls made
    summary,        \* last result of get_summary, if any
    top_risks,      \* last get_top_risks call: [top_n, result], if any
    top_modules,    \* last get_top_modules call: [metric, top_n, result], if any
    enumerations,   \* the nx.simple_cycles calls made: a set of [site, nodes]
    cli_output,     \* what main printed about the cycles, if it has
    report,         \* what the report says about the cycles, if generated
    analyses,       \* web UI: the rows of the table analyses, row i has id i
    thread,         \* web UI: the run_analysis thread of each analysis
    process,        \* web UI: the main.py subprocess of each analysis
    project_root,   \* web UI: the output files in the working directory
    reports_dir     \* web UI: the files in web_reports/analysis_<id>

\* the state of the AttackSurfaceAnalyzer and what was read from it
analyzer_vars == <<entry_points, attack_surface, surface_calls, summary, top_risks>>

\* what the run has done and shown about cycles
output_vars == <<enumerations, cli_output, report>>

\* the state of one run of main
main_vars == <<dependencies, nodes, edges, builds, graph_info, cycles,
               metrics, metrics_prev, risk_in, risk_level, analyzer_vars,
               top_modules, output_vars>>

\* the state of the web UI
web_vars == <<analyses, thread, process, project_root, reports_dir>>

vars == <<main_vars, web_vars>>

\* a result not yet returned is the empty set, a returned value v is {v}
NoResult == {}
Some(v) == {v}
Get(o) == CHOOSE v \in o : TRUE

---------------------------------------------------------------------------
(* Python str operations on atom sequences *)

StartsAt(s, i, pat) ==
    /\ i + Len(pat) - 1 <= Len(s)
    /\ \A j \in 1..Len(pat) : s[i + j - 1] = pat[j]

RECURSIVE ReplaceFrom(_, _, _, _)
ReplaceFrom(s, i, pat, rep) ==
    IF i > Len(s) THEN <<>>
    ELSE IF StartsAt(s, i, pat)
         THEN rep \o ReplaceFrom(s, i + Len(pat), pat, rep)
         ELSE <<s[i]>> \o ReplaceFrom(s, i + 1, pat, rep)

\* str.replace(pat, rep): every non-overlapping occurrence, left to right
Replace(s, pat, rep) == ReplaceFrom(s, 1, pat, rep)

\* str.endswith(suf)
EndsWith(s, suf) ==
    /\ Len(suf) <= Len(s)
    /\ StartsAt(s, Len(s) - Len(suf) + 1, suf)

\* sep in s
Contains(s, sep) == \E i \in 1..Len(s) : s[i] = sep

RECURSIVE SplitFrom(_, _, _, _)
SplitFrom(s, i, sep, cur) ==
    IF i > Len(s) THEN <<cur>>
    ELSE IF s[i] = sep
         THEN <<cur>> \o SplitFrom(s, i + 1, sep, <<>>)
         ELSE SplitFrom(s, i + 1, sep, Append(cur, s[i]))

\* str.split(sep): the list of segments (never empty)
Split(s, sep) == SplitFrom(s, 1, sep, <<>>)

LastSegment(s, sep) == LET p == Split(s, sep) IN p[Len(p)]
FirstSegment(s, sep) == Split(s, sep)[1]

DotPy == <<".", "py">>
SlashInit == <<"/", "__init__">>

---------------------------------------------------------------------------
(* dict and graph primitives *)

EmptyMap == <<>>

\* d[key] = value
Put(d, key, value) == (key :> value) @@ d

Range(s) == {s[i] : i \in 1..Len(s)}

\* q[:n] for n >= 0
Take(q, n) == SubSeq(q, 1, IF n < Len(q) THEN n ELSE Len(q))

Keys(deps) == {deps[i].module : i \in 1..Len(deps)}

\* DiGraph.add_node: a node already present keeps its place
AddNode(ns, n) == IF n \in Range(ns) THEN ns ELSE Append(ns, n)

\* Loops over dependencies run over an index range lo..hi that is split in
\* halves, first half first.  The guard "first = first" only makes TLC
\* evaluate the first half before it enters the second, which keeps the
\* depth of evaluation logarithmic in the number of modules.
Mid(lo, hi) == (lo + hi) \div 2

\* faulty variant of AddKey: a module without imports is not added
AddKeySkipEmpty(ns, entry) ==
    IF entry.deps = {} THEN ns ELSE AddNode(ns, entry.module)

\* graph_builder.py 29: self.graph.add_node(module)
AddKey(ns, entry) == AddNode(ns, entry.module)

RECURSIVE AddNodes(_, _, _, _)
\* graph_builder.py 28-29: add_node for the keys lo..hi, in order
AddNodes(ns, deps, lo, hi) ==
    IF lo > hi THEN ns
    ELSE IF lo = hi THEN AddKey(ns, deps[lo])
    ELSE LET first == AddNodes(ns, deps, lo, Mid(lo, hi))
         IN CASE first = first -> AddNodes(first, deps, Mid(lo, hi) + 1, hi)

RECURSIVE SetToSeq(_)
SetToSeq(S) ==
    IF S = {} THEN <<>>
    ELSE LET x == CHOOSE y \in S : TRUE IN <<x>> \o SetToSeq(S \ {x})

\* DiGraph.add_edge(u, v): both endpoints become nodes when they are not yet
AddEdge(g, u, v) ==
    [nodes |-> AddNode(AddNode(g.nodes, u), v),
     edges |-> g.edges \cup {<<u, v>>}]

---------------------------------------------------------------------------
(* GraphBuilder.build_graph *)

\* d[key] = value only where d has no key yet
PutNew(d, key, value) == IF key \in DOMAIN d THEN d ELSE Put(d, key, value)

\* faulty variant of RegisterModule: a candidate keeps the module that
\* registered it first
RegisterModuleFirstWins(mm, module) ==
    LET module_path == Replace(module, DotPy, <<>>)
    IN IF EndsWith(module_path, SlashInit)
       THEN LET package_name == Replace(module_path, SlashInit, <<>>)
                mm1 == PutNew(mm, package_name, module)
            IN IF Contains(package_name, "/")
               THEN PutNew(mm1, LastSegment(package_name, "/"), module)
               ELSE mm1
       ELSE PutNew(PutNew(mm, module_path, module),
                   LastSegment(module_path, "/"), module)

\* graph_builder.py 35-49: the candidates one module writes into module_map
RegisterModule(mm, module) ==
    LET module_path == Replace(module, DotPy, <<>>)
    IN IF EndsWith(module_path, SlashInit)
       THEN LET package_name == Replace(module_path, SlashInit, <<>>)
                mm1 == Put(mm, package_name, module)
            IN IF Contains(package_name, "/")
               THEN Put(mm1, LastSegment(package_name, "/"), module)
               ELSE mm1
       ELSE Put(Put(mm, module_path, module),
                LastSegment(module_path, "/"), module)

RECURSIVE RegisterModules(_, _, _, _)
\* graph_builder.py 33-49: the loop over the keys lo..hi, in order
RegisterModules(mm, deps, lo, hi) ==
    IF lo > hi THEN mm
    ELSE IF lo = hi THEN RegisterModule(mm, deps[lo].module)
    ELSE LET first == RegisterModules(mm, deps, lo, Mid(lo, hi))
         IN CASE first = first -> RegisterModules(first, deps, Mid(lo, hi) + 1, hi)

\* graph_builder.py 32-49: module_map after the loop over dependencies.keys()
module_map(deps) == RegisterModules(EmptyMap, deps, 1, Len(deps))

\* None, and every value Python takes for false in "if not matched_module"
NoMatch == <<>>

Lookup(mm, key) == IF key \in DOMAIN mm THEN mm[key] ELSE NoMatch

\* faulty variant of MatchDep: the path form is tried before the first segment
MatchDepPathFirst(mm, dep) ==
    LET m1 == Lookup(mm, dep)
        m2 == IF m1 = NoMatch THEN Lookup(mm, Replace(dep, <<".">>, <<"/">>)) ELSE m1
        m3 == IF m2 = NoMatch THEN Lookup(mm, FirstSegment(dep, ".")) ELSE m2
    IN m3

\* graph_builder.py 55-71: matched_module for one raw import
MatchDep(mm, dep) ==
    LET m1 == Lookup(mm, dep)
        m2 == IF m1 = NoMatch THEN Lookup(mm, FirstSegment(dep, ".")) ELSE m1
        m3 == IF m2 = NoMatch THEN Lookup(mm, Replace(dep, <<".">>, <<"/">>)) ELSE m2
    IN m3

\* faulty variant of KeepEdge: a module matched to itself keeps its edge
KeepEdgeAlways(module, matched) == matched # NoMatch

\* graph_builder.py 73: the guard of add_edge
KeepEdge(module, matched) == matched # NoMatch /\ matched # module

\* graph_builder.py 53-74: the edges one module contributes.  The set deps is
\* walked in an unspecified order; the order reaches only the place of a node
\* that add_edge would have to create.
AddModuleEdges(g, mm, module, deps) ==
    LET ds == SetToSeq(deps)
        F[k \in 0..Len(ds)] ==
            IF k = 0 THEN g
            ELSE LET matched == MatchDep(mm, ds[k])
                 IN IF KeepEdge(module, matched)
                    THEN AddEdge(F[k - 1], module, matched)
                    ELSE F[k - 1]
    IN F[Len(ds)]

RECURSIVE AddEdges(_, _, _, _, _)
\* graph_builder.py 52-74: the loop over the items lo..hi, in order
AddEdges(g, mm, deps, lo, hi) ==
    IF lo > hi THEN g
    ELSE IF lo = hi THEN AddModuleEdges(g, mm, deps[lo].module, deps[lo].deps)
    ELSE LET first == AddEdges(g, mm, deps, lo, Mid(lo, hi))
         IN CASE first = first -> AddEdges(first, mm, deps, Mid(lo, hi) + 1, hi)

\* graph_builder.py 27-76: self.graph after build_graph(deps)
BuildGraphResult(ns, es, deps) ==
    LET mm == module_map(deps)
        g0 == [nodes |-> AddNodes(ns, deps, 1, Len(deps)), edges |-> es]
    IN AddEdges(g0, mm, deps, 1, Len(deps))

---------------------------------------------------------------------------
(* networkx algorithms the code delegates to, by their definitions *)

Successors(es, v) == {e[2] : e \in {d \in es : d[1] = v}}

RECURSIVE ReachFrom(_, _)
\* the nodes reachable from the set S in zero or more steps
ReachFrom(es, S) ==
    LET T == S \cup UNION {Successors(es, v) : v \in S}
    IN IF T = S THEN S ELSE ReachFrom(es, T)

\* nx.is_directed_acyclic_graph: no node lies on a directed cycle
IsDAG(es) ==
    \A e \in es : e[1] \notin ReachFrom(es, {e[2]})

Index(ns, n) == CHOOSE i \in 1..Len(ns) : ns[i] = n

RECURSIVE CyclesThrough(_, _, _)
\* the simple cycles that extend path and close on path[1], through allowed
CyclesThrough(es, allowed, path) ==
    LET last == path[Len(path)]
        closed == IF <<last, path[1]>> \in es THEN {path} ELSE {}
        next == {m \in Successors(es, last) : m \in allowed /\ m \notin Range(path)}
    IN closed \cup UNION {CyclesThrough(es, allowed, Append(path, m)) : m \in next}

\* faulty variant of SimpleCycles: a circuit is written from each of its nodes
SimpleCyclesEveryStart(ns, es) ==
    UNION {CyclesThrough(es, Range(ns), <<s>>) : s \in {e[1] : e \in es}}

\* nx.simple_cycles: every elementary circuit once, written from its node of
\* least insertion index
SimpleCycles(ns, es) ==
    UNION {CyclesThrough(es, {m \in Range(ns) : Index(ns, m) > Index(ns, s)}, <<s>>)
           : s \in {e[1] : e \in es}}

InDegree(es, v) == Cardinality({e \in es : e[2] = v})
OutDegree(es, v) == Cardinality({e \in es : e[1] = v})

---------------------------------------------------------------------------
(* GraphBuilder.detect_cycles and GraphBuilder.get_graph_info *)

\* graph_builder.py 78: the default of max_nodes
DefaultMaxNodes == 100

\* graph_builder.py 110: the size up to which get_graph_info counts cycles
InfoMaxNodes == 100

\* graph_builder.py 89-97: the list detect_cycles(max_nodes) returns
DetectCycles(ns, es, max_nodes) ==
    IF Len(ns) > max_nodes THEN <<>> ELSE SetToSeq(SimpleCycles(ns, es))

\* graph_builder.py 91-94: whether detect_cycles(max_nodes) reaches
\* nx.simple_cycles
DetectCyclesEnumerates(ns, max_nodes) == ~(Len(ns) > max_nodes)

\* graph_builder.py 110-111: whether get_graph_info calls detect_cycles
InfoCallsDetectCycles(ns, es) == Len(ns) <= InfoMaxNodes /\ ~IsDAG(es)

\* one call of nx.simple_cycles, made at site on the graph with nodes ns
Enumeration(site, ns) == [site |-> site, nodes |-> Len(ns)]

\* the calls of nx.simple_cycles one detect_cycles(max_nodes) makes
DetectCyclesCalls(ns, max_nodes) ==
    IF DetectCyclesEnumerates(ns, max_nodes)
    THEN {Enumeration("detect_cycles", ns)} ELSE {}

\* faulty variant of GraphInfo: a graph that is not counted reports -1
GraphInfoSentinelAlways(ns, es) ==
    LET num_nodes == Len(ns)
        is_dag == IsDAG(es)
        cycles_count ==
            IF num_nodes <= InfoMaxNodes /\ ~is_dag
            THEN Len(DetectCycles(ns, es, DefaultMaxNodes))
            ELSE -1
    IN [nodes |-> num_nodes, edges |-> Cardinality(es),
        is_dag |-> is_dag, cycles |-> cycles_count]

\* faulty variant of GraphInfo: the size test is < instead of <=
GraphInfoStrict(ns, es) ==
    LET num_nodes == Len(ns)
        is_dag == IsDAG(es)
        cycles_count ==
            IF num_nodes < InfoMaxNodes /\ ~is_dag
            THEN Len(DetectCycles(ns, es, DefaultMaxNodes))
            ELSE IF is_dag THEN 0 ELSE -1
    IN [nodes |-> num_nodes, edges |-> Cardinality(es),
        is_dag |-> is_dag, cycles |-> cycles_count]

\* graph_builder.py 106-120: the dictionary get_graph_info returns
GraphInfo(ns, es) ==
    LET num_nodes == Len(ns)
        is_dag == IsDAG(es)
        cycles_count ==
            IF num_nodes <= InfoMaxNodes /\ ~is_dag
            THEN Len(DetectCycles(ns, es, DefaultMaxNodes))
            ELSE IF is_dag THEN 0 ELSE -1
    IN [nodes |-> num_nodes, edges |-> Cardinality(es),
        is_dag |-> is_dag, cycles |-> cycles_count]

---------------------------------------------------------------------------
(* MetricsCalculator *)

RECURSIVE GCD(_, _)
GCD(a, b) == IF b = 0 THEN a ELSE GCD(b, a % b)

\* a float, as the exact fraction it stands for, in lowest terms
Rat(n, d) == LET g == GCD(n, d) IN IF g = 0 THEN [num |-> 0, den |-> 1]
                                   ELSE [num |-> n \div g, den |-> d \div g]

RatAdd(x, y) == Rat(x.num * y.den + y.num * x.den, x.den * y.den)
RatMul(x, y) == Rat(x.num * y.num, x.den * y.den)
RatLess(x, y) == x.num * y.den < y.num * x.den
RatLeq(x, y) == x.num * y.den <= y.num * x.den

RECURSIVE RatSum(_)
RatSum(q) == IF q = <<>> THEN Rat(0, 1) ELSE RatAdd(Head(q), RatSum(Tail(q)))

\* faulty variant of DegreeCentrality: the degree is not divided by n - 1
DegreeCentralityRaw(ns, es) ==
    [v \in Range(ns) |->
        IF Len(ns) <= 1 THEN Rat(1, 1)
        ELSE Rat(InDegree(es, v) + OutDegree(es, v), 1)]

\* nx.degree_centrality (metrics.py 30): 1 for every node when the graph has
\* at most one, else degree * (1 / (n - 1)) with degree = in + out
DegreeCentrality(ns, es) ==
    [v \in Range(ns) |->
        IF Len(ns) <= 1 THEN Rat(1, 1)
        ELSE Rat(InDegree(es, v) + OutDegree(es, v), Len(ns) - 1)]

RECURSIVE Levels(_, _, _)
\* breadth-first search: the sets of nodes at distance 0, 1, 2, ... from the
\* nodes of the first level, given the levels found so far
Levels(es, found, seen) ==
    LET frontier == found[Len(found)]
        next == UNION {Successors(es, v) : v \in frontier} \ seen
    IN IF next = {} THEN found
       ELSE Levels(es, Append(found, next), seen \cup next)

RECURSIVE PathCount(_, _, _, _)
\* the number of shortest paths that reach t, a node of level k + 1 (k edges)
PathCount(es, levels, t, k) ==
    IF k = 0 THEN 1
    ELSE LET ps == SetToSeq({p \in levels[k] : <<p, t>> \in es})
             F[i \in 0..Len(ps)] ==
                 IF i = 0 THEN 0 ELSE F[i - 1] + PathCount(es, levels, ps[i], k - 1)
         IN F[Len(ps)]

\* for every pair <<s, t>>: the number sigma of shortest paths from s to t
\* (0 when t cannot be reached from s) and their length dist
ShortestPaths(ns, es) ==
    [p \in Range(ns) \X Range(ns) |->
        LET levels == Levels(es, <<{p[1]}>>, {p[1]})
            at == {k \in 1..Len(levels) : p[2] \in levels[k]}
        IN IF at = {} THEN [dist |-> 0, sigma |-> 0]
           ELSE LET k == CHOOSE j \in at : TRUE
                IN [dist |-> k - 1, sigma |-> PathCount(es, levels, p[2], k - 1)]]

\* the share of the shortest s-t paths that pass through v
PairDependency(sp, s, t, v) ==
    IF sp[<<s, t>>].sigma = 0 \/ sp[<<s, v>>].sigma = 0 \/ sp[<<v, t>>].sigma = 0
       \/ sp[<<s, v>>].dist + sp[<<v, t>>].dist # sp[<<s, t>>].dist
    THEN Rat(0, 1)
    ELSE Rat(sp[<<s, v>>].sigma * sp[<<v, t>>].sigma, sp[<<s, t>>].sigma)

\* nx.betweenness_centrality (metrics.py 40): directed, normalized, without
\* endpoints; the scale is 1 / ((n-1)(n-2)) when n > 2 and none otherwise.
\* The guard "sp = sp" makes TLC compute the table of shortest paths once.
BetweennessCentrality(ns, es) ==
    LET sp == ShortestPaths(ns, es)
    IN CASE sp = sp ->
        [v \in Range(ns) |->
            LET pairs == SetToSeq({p \in (Range(ns) \ {v}) \X (Range(ns) \ {v})
                                      : p[1] # p[2]})
                raw == RatSum([i \in 1..Len(pairs) |->
                                  PairDependency(sp, pairs[i][1], pairs[i][2], v)])
            IN IF Len(ns) <= 2 THEN raw
               ELSE RatMul(raw, Rat(1, (Len(ns) - 1) * (Len(ns) - 2)))]

\* faulty variant of InDegreeMap: an importer that is imported back is not counted
InDegreeMapOneWay(ns, es) ==
    [v \in Range(ns) |-> Cardinality({e \in es : e[2] = v /\ <<v, e[1]>> \notin es})]

\* metrics.py 50: dict(self.graph.in_degree())
InDegreeMap(ns, es) == [v \in Range(ns) |-> InDegree(es, v)]

\* metrics.py 60: dict(self.graph.out_degree())
OutDegreeMap(ns, es) == [v \in Range(ns) |-> OutDegree(es, v)]

\* metrics.py 69-76: the dictionary calculate_all_metrics returns
AllMetrics(ns, es) ==
    [degree_centrality |-> DegreeCentrality(ns, es),
     betweenness_centrality |-> BetweennessCentrality(ns, es),
     in_degree |-> InDegreeMap(ns, es),
     out_degree |-> OutDegreeMap(ns, es)]

\* the items of a metric map, in its iteration order: networkx fills each
\* map in the order of the graph's nodes
Items(m, ns) == [i \in 1..Len(ns) |-> [module |-> ns[i], score |-> m[ns[i]]]]

\* Python's < on two scores of one metric: floats for the centralities,
\* ints for the degrees
ScoreLess(metric, a, b) ==
    IF metric \in {"in_degree", "out_degree"} THEN a < b ELSE RatLess(a, b)

\* faulty variant of InsertByScore: an item goes before the items of the
\* same score
InsertByScoreUnstable(metric, sorted, x) ==
    LET notlarger == {i \in 1..Len(sorted) : ~ScoreLess(metric, x.score, sorted[i].score)}
        at == IF notlarger = {} THEN Len(sorted) + 1
              ELSE CHOOSE i \in notlarger : \A j \in notlarger : i <= j
    IN SubSeq(sorted, 1, at - 1) \o <<x>> \o SubSeq(sorted, at, Len(sorted))

\* x placed into a list sorted downwards by score, behind the items whose
\* score is not smaller
InsertByScore(metric, sorted, x) ==
    LET smaller == {i \in 1..Len(sorted) : ScoreLess(metric, sorted[i].score, x.score)}
        at == IF smaller = {} THEN Len(sorted) + 1
              ELSE CHOOSE i \in smaller : \A j \in smaller : i <= j
    IN SubSeq(sorted, 1, at - 1) \o <<x>> \o SubSeq(sorted, at, Len(sorted))

RECURSIVE SortScoresFrom(_, _, _, _)
SortScoresFrom(metric, sorted, q, i) ==
    IF i > Len(q) THEN sorted
    ELSE SortScoresFrom(metric, InsertByScore(metric, sorted, q[i]), q, i + 1)

\* metrics.py 94-98: sorted(items, key=lambda x: x[1], reverse=True), stable
SortScores(metric, q) == SortScoresFrom(metric, <<>>, q, 1)

\* faulty variant of TopModules: an unknown metric is answered with the
\* degree centralities
TopModulesDefaulting(all_metrics, ns, metric, top_n) ==
    LET known == IF metric \in DOMAIN all_metrics THEN metric ELSE "degree_centrality"
    IN Take(SortScores(known, Items(all_metrics[known], ns)), top_n)

\* metrics.py 91-100: the list get_top_modules(metric, top_n) returns, given
\* the dictionary all_metrics of line 89
TopModules(all_metrics, ns, metric, top_n) ==
    IF metric \notin DOMAIN all_metrics THEN <<>>
    ELSE Take(SortScores(metric, Items(all_metrics[metric], ns)), top_n)

---------------------------------------------------------------------------
(* AttackSurfaceAnalyzer._calculate_risk_level *)

\* faulty variant of RiskLevel: the distance is not shifted by one
RiskLevelNoShift(distance, centrality) ==
    LET score == RatMul(Rat(1, IF distance = 0 THEN 1 ELSE distance), centrality)
    IN IF RatLess(Rat(2, 10), score) THEN "CRITIQUE"
       ELSE IF RatLess(Rat(1, 10), score) THEN "ELEVE"
       ELSE IF RatLess(Rat(5, 100), score) THEN "MOYEN"
       ELSE "FAIBLE"

\* faulty variant of RiskScore: the centrality is multiplied by distance + 1
RiskScoreGrowing(distance, centrality) ==
    RatMul(Rat(distance + 1, 1), centrality)

\* attack_surface.py 202: score = (1 / (distance + 1)) * centrality
RiskScore(distance, centrality) ==
    RatMul(Rat(1, distance + 1), centrality)

\* attack_surface.py 202-211; "ELEVE" spells the level written with accents
RiskLevel(distance, centrality) ==
    LET score == RiskScore(distance, centrality)
    IN IF RatLess(Rat(2, 10), score) THEN "CRITIQUE"
       ELSE IF RatLess(Rat(1, 10), score) THEN "ELEVE"
       ELSE IF RatLess(Rat(5, 100), score) THEN "MOYEN"
       ELSE "FAIBLE"

---------------------------------------------------------------------------
(* AttackSurfaceAnalyzer *)

\* attack_surface.py 192: cutoff of single_source_shortest_path_length
Cutoff == 5

\* attack_surface.py 163: records beyond this distance are skipped
MaxReported == 5

\* attack_surface.py 169: the largest distance of a critical module
CriticalDistance == 3

RECURSIVE Flatten(_)
\* the concatenation of a sequence of sequences
Flatten(qs) == IF qs = <<>> THEN <<>> ELSE Head(qs) \o Flatten(Tail(qs))

\* faulty variant of DistancesFromEntry: the search also starts from a module
\* that is no node of the graph
DistancesFromEntryUnguarded(ns, es, entry_module) ==
    LET levels == Take(Levels(es, <<{entry_module}>>, {entry_module}), Cutoff + 1)
    IN Flatten([k \in 1..Len(levels) |->
           LET ms == SetToSeq(levels[k])
           IN [i \in 1..Len(ms) |-> [module |-> ms[i], distance |-> k - 1]]])

\* attack_surface.py 185-197: the items of the distance map, in the order of
\* the breadth-first search (level by level; the order inside a level follows
\* the adjacency order, which build_graph leaves unspecified)
DistancesFromEntry(ns, es, entry_module) ==
    IF entry_module \notin Range(ns) THEN <<>>
    ELSE LET levels == Take(Levels(es, <<{entry_module}>>, {entry_module}), Cutoff + 1)
         IN Flatten([k \in 1..Len(levels) |->
                LET ms == SetToSeq(levels[k])
                IN [i \in 1..Len(ms) |-> [module |-> ms[i], distance |-> k - 1]]])

\* attack_surface.py 166: degree_centrality.get(target_module, 0)
CentralityOf(dc, module) == IF module \in DOMAIN dc THEN dc[module] ELSE Rat(0, 1)

\* faulty variant of IsCritical: every module within the cutoff is recorded
IsCriticalAlways(distance, centrality) == TRUE

\* faulty variant of IsCritical: every distance within the cutoff is accepted
IsCriticalWithinCutoff(distance, centrality) ==
    RatLess(Rat(3, 10), centrality) /\ distance <= Cutoff

\* attack_surface.py 169: centrality > 0.3 and distance <= 3
IsCritical(distance, centrality) ==
    RatLess(Rat(3, 10), centrality) /\ distance <= CriticalDistance

\* attack_surface.py 159-180: the records one entry of one module appends
RecordsOfEntry(ns, es, dc, entry_module, entry) ==
    LET ds == DistancesFromEntry(ns, es, entry_module)
        Kept(d) == /\ ~(d.distance > MaxReported)
                   /\ IsCritical(d.distance, CentralityOf(dc, d.module))
        keep == SelectSeq(ds, Kept)
    IN [i \in 1..Len(keep) |->
           [entry_point |-> entry_module,
            entry_function |-> entry.function,
            entry_path |-> entry.path,
            target_module |-> keep[i].module,
            distance |-> keep[i].distance,
            centrality |-> CentralityOf(dc, keep[i].module),
            risk_level |-> RiskLevel(keep[i].distance,
                                     CentralityOf(dc, keep[i].module))]]

\* attack_surface.py 156-180: the records of all entries, in the order of
\* self.entry_points and of the entry lists
SurfaceRecords(ns, es, dc, eps) ==
    Flatten([m \in 1..Len(eps) |->
        Flatten([e \in 1..Len(eps[m].entries) |->
            RecordsOfEntry(ns, es, dc, eps[m].module, eps[m].entries[e])])])

\* the Unicode code points of the level strings of attack_surface.py 205-211
CodePoints(level) ==
    CASE level = "CRITIQUE" -> <<67, 82, 73, 84, 73, 81, 85, 69>>
      [] level = "ELEVE" -> <<201, 76, 69, 86, 201>>
      [] level = "MOYEN" -> <<77, 79, 89, 69, 78>>
      [] level = "FAIBLE" -> <<70, 65, 73, 66, 76, 69>>

RECURSIVE SeqLess(_, _)
\* Python's < on two str, by code points
SeqLess(a, b) ==
    IF b = <<>> THEN FALSE
    ELSE IF a = <<>> THEN TRUE
    ELSE IF Head(a) # Head(b) THEN Head(a) < Head(b)
    ELSE SeqLess(Tail(a), Tail(b))

\* faulty variant of KeyLess: the distance itself is compared, not its negation
KeyLessByDistance(x, y) ==
    \/ SeqLess(CodePoints(x.risk_level), CodePoints(y.risk_level))
    \/ x.risk_level = y.risk_level /\ x.distance < y.distance

\* attack_surface.py 183: < on the keys (x['risk_level'], -x['distance'])
KeyLess(x, y) ==
    \/ SeqLess(CodePoints(x.risk_level), CodePoints(y.risk_level))
    \/ x.risk_level = y.risk_level /\ (0 - x.distance) < (0 - y.distance)

\* x placed into a list sorted downwards, behind the records that are not
\* smaller than it
InsertDescending(sorted, x) ==
    LET smaller == {i \in 1..Len(sorted) : KeyLess(sorted[i], x)}
        at == IF smaller = {} THEN Len(sorted) + 1
              ELSE CHOOSE i \in smaller : \A j \in smaller : i <= j
    IN SubSeq(sorted, 1, at - 1) \o <<x>> \o SubSeq(sorted, at, Len(sorted))

RECURSIVE SortFrom(_, _, _)
SortFrom(sorted, q, i) ==
    IF i > Len(q) THEN sorted
    ELSE SortFrom(InsertDescending(sorted, q[i]), q, i + 1)

\* attack_surface.py 183: list.sort(key=..., reverse=True), which is stable
SortRisk(q) == SortFrom(<<>>, q, 1)

\* attack_surface.py 150-183: self.attack_surface after the call
CalculateAttackSurface(ns, es, m, eps, surface) ==
    IF eps = <<>> THEN surface
    ELSE LET dc == IF "degree_centrality" \in DOMAIN m
                   THEN m.degree_centrality ELSE <<>>
         IN SortRisk(surface \o SurfaceRecords(ns, es, dc, eps))

RECURSIVE SumLens(_)
\* attack_surface.py 215: sum(len(entries) for entries in self.entry_points.values())
SumLens(eps) ==
    IF eps = <<>> THEN 0 ELSE Len(Head(eps).entries) + SumLens(Tail(eps))

\* the number of records of one level
CountLevel(surface, level) ==
    Cardinality({i \in 1..Len(surface) : surface[i].risk_level = level})

\* faulty variant of Summary: critical_paths counts the CRITIQUE records only
SummaryCriticalOnly(eps, surface) ==
    [total_entry_points |-> SumLens(eps),
     entry_modules |-> Len(eps),
     critical_paths |-> CountLevel(surface, "CRITIQUE"),
     total_attack_surface |-> Len(surface),
     by_risk |-> [level \in {"CRITIQUE", "ELEVE", "MOYEN", "FAIBLE"} |->
                     CountLevel(surface, level)]]

\* attack_surface.py 213-233: the dictionary get_summary returns
Summary(eps, surface) ==
    [total_entry_points |-> SumLens(eps),
     entry_modules |-> Len(eps),
     critical_paths |->
         Cardinality({i \in 1..Len(surface) :
                         surface[i].risk_level \in {"CRITIQUE", "ELEVE"}}),
     total_attack_surface |-> Len(surface),
     by_risk |-> [level \in {"CRITIQUE", "ELEVE", "MOYEN", "FAIBLE"} |->
                     CountLevel(surface, level)]]

\* attack_surface.py 237: self.attack_surface[:top_n]
TopRisks(surface, top_n) == Take(surface, top_n)

\* attack_surface.py 79-80: self.entry_points[module_name] = entry_points,
\* only for a list that is not empty
PutEntries(eps, module, entries) ==
    IF entries = <<>> THEN eps
    ELSE IF \E i \in 1..Len(eps) : eps[i].module = module
    THEN [i \in 1..Len(eps) |->
             IF eps[i].module = module
             THEN [module |-> module, entries |-> entries] ELSE eps[i]]
    ELSE Append(eps, [module |-> module, entries |-> entries])

---------------------------------------------------------------------------
(* What main prints and HTMLReporter writes about cycles *)

\* main.py 71: the size up to which main lists cycles
MainMaxNodes == 100

\* main.py 75: the number of cycles main lists
MainMaxCycles == 3

\* html_reporter.py 1046: the number of cycles the report lists
ReportMaxCycles == 5

\* main.py 71: whether main calls detect_cycles
MainCallsDetectCycles(info) == ~info.is_dag /\ info.nodes <= MainMaxNodes

\* main.py 64-78: the cycle count main prints, none when it prints
\* "non calculé", and the number of cycles it lists
CliOutput(info, ns, es) ==
    [cycles_count |-> IF info.cycles = -1 THEN NoResult ELSE Some(info.cycles),
     listed |-> IF MainCallsDetectCycles(info)
                THEN Len(Take(DetectCycles(ns, es, DefaultMaxNodes), MainMaxCycles))
                ELSE 0]

\* html_reporter.py 1041-1046: whether _generate_cycles_section calls
\* nx.simple_cycles
ReportEnumerates(info) == ~info.is_dag

\* html_reporter.py 709-710 and 1041-1051: the cycle count the summary of
\* the report shows, none when it says the graph is acyclic, and the number
\* of cycles the cycles section lists
Report(info, ns, es) ==
    [cycles_count |-> IF info.is_dag THEN NoResult ELSE Some(info.cycles),
     listed |-> IF ReportEnumerates(info)
                THEN Len(Take(SetToSeq(SimpleCycles(ns, es)), ReportMaxCycles))
                ELSE 0]

---------------------------------------------------------------------------
(* Web UI: start_analysis, run_analysis and the main.py subprocesses *)

\* main.py 157, 158, 161, 174: the output files, in the order main writes
\* them into its working directory
WriteOrder ==
    <<"output_graph_simple.png", "output_graph_metrics.png",
      "graph_interactive.html", "report.html">>

\* app.py 114: the same files, in the order run_analysis moves them
MoveOrder ==
    <<"report.html", "output_graph_simple.png", "output_graph_metrics.png",
      "graph_interactive.html">>

OutputFiles == Range(WriteOrder)

\* a directory without output files; a file that is there is the set of
\* the one analysis whose subprocess wrote it
EmptyDir == [file \in OutputFiles |-> NoResult]

\* the ids of the analyses started
Ids == 1..Len(analyses)

\* UPDATE analyses SET status = ... WHERE id = a
SetStatus(rows, a, status) == [rows EXCEPT ![a].status = status]

---------------------------------------------------------------------------
(* Inputs *)

MaxModules == 3     \* modules of a project with packages
MaxImports == 2     \* import statements of such a project, over all modules
MaxNodes == 3       \* modules with imports of a flat project
MaxEdges == 4       \* import statements of a flat project
MaxBuilds == 2      \* build_graph calls on one GraphBuilder
MaxCore == 2        \* modules with imports of a large project
PadSpread == 1      \* the paddings of a large project add 98 .. 98 + PadSpread files
CentralityDen == 20 \* centralities k / CentralityDen are tried
MaxDistance == 5    \* distances 0..MaxDistance are tried

MaxChain == 5       \* files of a chain project
MaxEntries == 2     \* entry points, over all modules
MaxCalls == 2       \* calculate_attack_surface calls on one analyzer
MaxTop == 2         \* top_n of get_top_risks is 0..MaxTop
MaxTopN == 2        \* top_n of get_top_modules is 0..MaxTopN
MaxAnalyses == 2    \* analyses started through the web UI

Py(name) == name \o DotPy

\* files of a project with packages, as parse_project names them
\* (parser.py 77); they are parsed in any order
PackageModules ==
    { Py(<<"a">>),
      Py(<<"pkg", "/", "a">>),
      Py(<<"pkg", "/", "__init__">>),
      Py(<<"pkg", "/", "sub", "/", "mod">>) }

\* raw imports as parse_file collects them (parser.py 46, 49)
PackageImports ==
    { <<"a">>, <<"pkg">>, <<"pkg", ".", "sub", ".", "mod">>, <<"os">> }

\* files of a flat project, in the order rglob yields them.  The names are
\* interchangeable, so one order stands for all; it is not the alphabetical
\* one.
FlatFiles == << Py(<<"b">>), Py(<<"a">>), Py(<<"d">>), Py(<<"c">>) >>
FlatImports == { <<"a">>, <<"b">>, <<"c">>, <<"d">> }

Digit(i) == <<"0", "1", "2", "3", "4", "5", "6", "7", "8", "9">>[i + 1]

\* k more files without imports: f001.py, f002.py, ...
PadName(k) == <<"f", Digit(k \div 100), Digit((k \div 10) % 10), Digit(k % 10)>>

Padding(k) == [i \in 1..k |-> [module |-> Py(PadName(i)), deps |-> {}]]

PadSizes == (DefaultMaxNodes - 2) .. (DefaultMaxNodes - 2 + PadSpread)

\* files of a chain project, m1.py, m2.py, ..., in the order rglob yields
\* them; each imports the next one and may import the one before it
ChainImport(i) == <<"m", Digit(i)>>
ChainFile(i) == Py(ChainImport(i))

\* the files of a chain project that may hold routes
EntryFiles == <<ChainFile(1), ChainFile(2)>>

\* the entry points analyze_file finds in a file with k routes
\* (attack_surface.py 70-77); only 'function' and 'path' are read later
EntryList(k) ==
    [i \in 1..k |->
        [function |-> <<"view", Digit(i)>>,
         path |-> IF i = 1 THEN <<"/", "p">> ELSE <<"unknown">>]]

\* files of a project with index modules at several depths, the top level
\* included, as parse_project names them; they are parsed in any order
IndexModules ==
    { Py(<<"__init__">>),
      Py(<<"pkg", "/", "__init__">>),
      Py(<<"pkg", "/", "sub", "/", "__init__">>),
      Py(<<"pkg", "/", "sub", "/", "mod">>),
      Py(<<"a">>) }

\* raw imports of such a project
IndexImports == { <<"sub">>, <<"__init__">> }

\* the maps of a second project, handed to a GraphBuilder that has built a
\* graph before: one file, b.py or c.py, with imports among a and c
OtherProjects ==
    { << [module |-> Py(name), deps |-> imports] >> :
         name \in {<<"b">>, <<"c">>}, imports \in SUBSET {<<"a">>, <<"c">>} }

\* metric names handed to get_top_modules: the four computed ones and one
\* that is not computed
MetricNames ==
    {"degree_centrality", "betweenness_centrality", "in_degree", "out_degree",
     "complexity"}

RiskInputs ==
    [distance : 0..MaxDistance,
     centrality : {Rat(k, CentralityDen) : k \in 0..(2 * CentralityDen)}]

---------------------------------------------------------------------------
(* State machine *)

Fresh ==
    /\ nodes = <<>>
    /\ edges = {}
    /\ builds = 0
    /\ graph_info = NoResult
    /\ cycles = NoResult
    /\ metrics = NoResult
    /\ metrics_prev = NoResult
    /\ risk_in = NoResult
    /\ risk_level = NoResult

RECURSIVE CountImports(_)
\* the number of import statements in the map
CountImports(deps) ==
    IF deps = <<>> THEN 0 ELSE Cardinality(Head(deps).deps) + CountImports(Tail(deps))

\* parser.py 76-79: self.dependencies[module_name] = imports, for one more file
AddFile(module, imports, maxImps) ==
    /\ builds = 0
    /\ CountImports(dependencies) + Cardinality(imports) <= maxImps
    /\ dependencies' = Append(dependencies, [module |-> module, deps |-> imports])
    /\ UNCHANGED <<nodes, edges, builds, graph_info, cycles, metrics,
                   metrics_prev, risk_in, risk_level,
                   analyzer_vars, top_modules, output_vars, web_vars>>

\* the next file of a project with packages
parse_package ==
    /\ Len(dependencies) < MaxModules
    /\ \E module \in PackageModules \ Keys(dependencies) :
          \E imports \in SUBSET PackageImports :
             AddFile(module, imports, MaxImports)

\* the next file of a project with index modules
parse_index ==
    /\ Len(dependencies) < MaxModules
    /\ \E module \in IndexModules \ Keys(dependencies) :
          \E imports \in SUBSET IndexImports :
             AddFile(module, imports, MaxImports)

\* the next file of a flat project; a file that imports its own name is
\* left to the projects with packages
parse_flat ==
    /\ Len(dependencies) < MaxNodes
    /\ Len(dependencies) < Len(FlatFiles)
    /\ LET module == FlatFiles[Len(dependencies) + 1]
       IN \E imports \in SUBSET {imp \in FlatImports : Py(imp) # module} :
             AddFile(module, imports, MaxEdges)

\* the other files of a large project, none of which imports anything
parse_padding ==
    /\ builds = 0
    /\ Len(dependencies) <= MaxCore
    /\ \E k \in PadSizes : dependencies' = dependencies \o Padding(k)
    /\ UNCHANGED <<nodes, edges, builds, graph_info, cycles, metrics,
                   metrics_prev, risk_in, risk_level,
                   analyzer_vars, top_modules, output_vars, web_vars>>

\* the caller of build_graph prepares the map of another project for the
\* GraphBuilder that has built one graph
other_project ==
    /\ builds = 1
    /\ graph_info = NoResult /\ top_modules = NoResult
    /\ dependencies \notin OtherProjects
    /\ dependencies' \in OtherProjects
    /\ UNCHANGED <<nodes, edges, builds, graph_info, cycles, metrics,
                   metrics_prev, risk_in, risk_level,
                   analyzer_vars, top_modules, output_vars, web_vars>>

\* main.py 55-56: graph_builder.build_graph(dependencies)
build_graph ==
    /\ builds < MaxBuilds
    /\ graph_info = NoResult /\ cycles = NoResult /\ metrics = NoResult
    /\ LET g == BuildGraphResult(nodes, edges, dependencies)
       IN /\ nodes' = g.nodes
          /\ edges' = g.edges
    /\ builds' = builds + 1
    /\ UNCHANGED <<dependencies, graph_info, cycles, metrics, metrics_prev,
                   risk_in, risk_level,
                   analyzer_vars, top_modules, output_vars, web_vars>>

\* main.py 57: graph_builder.get_graph_info()
get_graph_info ==
    /\ builds >= 1
    /\ cycles = NoResult /\ metrics = NoResult
    /\ graph_info' = Some(GraphInfo(nodes, edges))
    /\ enumerations' = enumerations \cup
          (IF InfoCallsDetectCycles(nodes, edges)
           THEN DetectCyclesCalls(nodes, DefaultMaxNodes) ELSE {})
    /\ UNCHANGED <<dependencies, nodes, edges, builds, cycles, metrics,
                   metrics_prev, risk_in, risk_level,
                   analyzer_vars, top_modules, cli_output, report, web_vars>>

\* graph_builder.detect_cycles() with the default max_nodes
detect_cycles ==
    /\ graph_info # NoResult
    /\ metrics = NoResult
    /\ cycles' = Some(DetectCycles(nodes, edges, DefaultMaxNodes))
    /\ enumerations' = enumerations \cup DetectCyclesCalls(nodes, DefaultMaxNodes)
    /\ UNCHANGED <<dependencies, nodes, edges, builds, graph_info, metrics,
                   metrics_prev, risk_in, risk_level,
                   analyzer_vars, top_modules, cli_output, report, web_vars>>

\* faulty variant of calculate_all_metrics: in_degree adds up over the calls
calculate_all_metrics_accumulating ==
    /\ graph_info # NoResult
    /\ LET m == AllMetrics(nodes, edges)
       IN metrics' = Some([m EXCEPT !.in_degree =
                              [v \in Range(nodes) |->
                                  m.in_degree[v]
                                  + (IF metrics = NoResult THEN 0
                                     ELSE Get(metrics).in_degree[v])]])
    /\ metrics_prev' = metrics
    /\ UNCHANGED <<dependencies, nodes, edges, builds, graph_info, cycles,
                   risk_in, risk_level,
                   analyzer_vars, top_modules, output_vars, web_vars>>

\* main.py 114-115 and metrics.py 89: calculate_all_metrics, called again by
\* every get_top_modules; in a run all these calls precede the calculation
\* of the attack surface (main.py 139)
calculate_all_metrics ==
    /\ graph_info # NoResult
    /\ surface_calls = 0 /\ summary = NoResult
    /\ metrics' = Some(AllMetrics(nodes, edges))
    /\ metrics_prev' = metrics
    /\ UNCHANGED <<dependencies, nodes, edges, builds, graph_info, cycles,
                   risk_in, risk_level,
                   analyzer_vars, top_modules, output_vars, web_vars>>

\* attack_surface.py 170: self._calculate_risk_level(distance, centrality)
calculate_risk_level ==
    /\ \E r \in RiskInputs :
          /\ risk_in' = Some(r)
          /\ risk_level' = Some(RiskLevel(r.distance, r.centrality))
    /\ UNCHANGED <<dependencies, nodes, edges, builds, graph_info, cycles,
                   metrics, metrics_prev,
                   analyzer_vars, top_modules, output_vars, web_vars>>

\* the next file of a chain project
parse_chain ==
    /\ Len(dependencies) < MaxChain
    /\ LET i == Len(dependencies) + 1
           next == {ChainImport(j) : j \in {i + 1} \cap 1..MaxChain}
           back == {ChainImport(j) : j \in {i - 1} \cap 1..MaxChain}
       IN \E imports \in {next, next \cup back} :
             AddFile(ChainFile(i), imports, 2 * MaxChain)

\* main.py 103-108: attack_surface.analyze_file for the next file with
\* routes, on the analyzer made once the graph is built and described
analyze_file ==
    /\ graph_info # NoResult
    /\ surface_calls = 0
    /\ summary = NoResult /\ top_risks = NoResult
    /\ \E i \in 1..Len(EntryFiles), k \in 1..MaxEntries :
          /\ \A j \in 1..Len(entry_points) :
                \E x \in 1..(i - 1) : entry_points[j].module = EntryFiles[x]
          /\ SumLens(entry_points) + k <= MaxEntries
          /\ entry_points' = PutEntries(entry_points, EntryFiles[i], EntryList(k))
    /\ UNCHANGED <<dependencies, nodes, edges, builds, graph_info, cycles,
                   metrics, metrics_prev, risk_in, risk_level,
                   attack_surface, surface_calls, summary, top_risks, top_modules, output_vars, web_vars>>

\* main.py 139: attack_surface.calculate_attack_surface(metrics)
calculate_attack_surface ==
    /\ metrics # NoResult
    /\ surface_calls < MaxCalls
    /\ summary = NoResult /\ top_risks = NoResult
    /\ attack_surface' = CalculateAttackSurface(nodes, edges, Get(metrics),
                                                entry_points, attack_surface)
    /\ surface_calls' = surface_calls + 1
    /\ UNCHANGED <<dependencies, nodes, edges, builds, graph_info, cycles,
                   metrics, metrics_prev, risk_in, risk_level,
                   entry_points, summary, top_risks, top_modules, output_vars, web_vars>>

\* main.py 140: attack_surface.get_summary()
get_summary ==
    /\ graph_info # NoResult
    /\ top_risks = NoResult
    /\ summary' = Some(Summary(entry_points, attack_surface))
    /\ UNCHANGED <<dependencies, nodes, edges, builds, graph_info, cycles,
                   metrics, metrics_prev, risk_in, risk_level,
                   entry_points, attack_surface, surface_calls, top_risks,
                   top_modules, output_vars, web_vars>>

\* attack_surface_html.py 20: attack_surface_analyzer.get_top_risks(top_n),
\* for the report that follows the calculation
get_top_risks ==
    /\ surface_calls >= 1
    /\ summary = NoResult
    /\ \E top_n \in 0..MaxTop :
          top_risks' = Some([top_n |-> top_n,
                             result |-> TopRisks(attack_surface, top_n)])
    /\ UNCHANGED <<dependencies, nodes, edges, builds, graph_info, cycles,
                   metrics, metrics_prev, risk_in, risk_level,
                   entry_points, attack_surface, surface_calls, summary,
                   top_modules, output_vars, web_vars>>

\* main.py 121-131: metrics_calc.get_top_modules(metric, top_n), which
\* begins with all_metrics = self.calculate_all_metrics() (metrics.py 89);
\* one call of a run is observed
get_top_modules ==
    /\ builds >= 1
    /\ top_modules = NoResult
    /\ LET all_metrics == AllMetrics(nodes, edges)
       IN CASE all_metrics = all_metrics ->
             \E metric \in MetricNames, top_n \in 0..MaxTopN :
                top_modules' =
                   Some([metric |-> metric, top_n |-> top_n,
                         result |-> TopModules(all_metrics, nodes, metric, top_n)])
    /\ UNCHANGED <<dependencies, nodes, edges, builds, graph_info, cycles,
                   metrics, metrics_prev, risk_in, risk_level, analyzer_vars, output_vars, web_vars>>

\* main.py 59-78: the lines main prints about the graph; it lists cycles
\* through graph_builder.detect_cycles()
print_graph_info ==
    /\ graph_info # NoResult
    /\ cli_output = NoResult
    /\ LET info == Get(graph_info)
       IN /\ cli_output' = Some(CliOutput(info, nodes, edges))
          /\ IF MainCallsDetectCycles(info)
             THEN /\ cycles' = Some(DetectCycles(nodes, edges, DefaultMaxNodes))
                  /\ enumerations' = enumerations \cup
                                        DetectCyclesCalls(nodes, DefaultMaxNodes)
             ELSE UNCHANGED <<cycles, enumerations, web_vars>>
    /\ UNCHANGED <<dependencies, nodes, edges, builds, graph_info, metrics,
                   metrics_prev, risk_in, risk_level, analyzer_vars,
                   top_modules, report, web_vars>>

\* main.py 173-174: HTMLReporter(graph, metrics, graph_info, ...) and
\* generate_report, as far as cycles are concerned: the summary of the
\* overview tab and the cycles section of the dependencies tab
generate_report ==
    /\ cli_output # NoResult
    /\ report = NoResult
    /\ LET info == Get(graph_info)
       IN /\ report' = Some(Report(info, nodes, edges))
          /\ enumerations' = enumerations \cup
                (IF ReportEnumerates(info)
                 THEN {Enumeration("_generate_cycles_section", nodes)} ELSE {})
    /\ UNCHANGED <<dependencies, nodes, edges, builds, graph_info, cycles,
                   metrics, metrics_prev, risk_in, risk_level, analyzer_vars,
                   top_modules, cli_output, web_vars>>

\* app.py 454-486: start_analysis inserts a pending row, whose id is the
\* next one, and starts the thread of run_analysis; a request without
\* repo_url changes nothing
start_analysis ==
    /\ Len(analyses) < MaxAnalyses
    /\ analyses' = Append(analyses, [status |-> "pending", report_path |-> NoResult])
    /\ thread' = Append(thread, [pc |-> "start", next |-> 1, files_moved |-> <<>>])
    /\ process' = Append(process, [started |-> FALSE, written |-> 0,
                                    returncode |-> NoResult])
    /\ reports_dir' = Append(reports_dir, EmptyDir)
    /\ UNCHANGED <<main_vars, project_root>>

\* app.py 63-100: run_analysis sets the status, makes its directory and
\* starts main.py with the project root as working directory
launch(a) ==
    /\ thread[a].pc = "start"
    /\ analyses' = SetStatus(analyses, a, "running")
    /\ process' = [process EXCEPT ![a].started = TRUE]
    /\ thread' = [thread EXCEPT ![a].pc = "communicate"]
    /\ UNCHANGED <<main_vars, project_root, reports_dir>>

\* main.py 157-174: the subprocess writes its next output file, over the
\* file of that name if there is one
main_writes(a) ==
    /\ process[a].started
    /\ process[a].returncode = NoResult
    /\ process[a].written < Len(WriteOrder)
    /\ project_root' =
          [project_root EXCEPT ![WriteOrder[process[a].written + 1]] = Some(a)]
    /\ process' = [process EXCEPT ![a].written = @ + 1]
    /\ UNCHANGED <<main_vars, analyses, thread, reports_dir>>

\* main.py 196: the subprocess ends after its last file
main_exits(a) ==
    /\ process[a].started
    /\ process[a].returncode = NoResult
    /\ process[a].written = Len(WriteOrder)
    /\ process' = [process EXCEPT ![a].returncode = Some(0)]
    /\ UNCHANGED <<main_vars, analyses, thread, project_root, reports_dir>>

\* main.py 39: the subprocess ends with an error before it writes a file,
\* as when the repository cannot be cloned
main_fails(a) ==
    /\ process[a].started
    /\ process[a].returncode = NoResult
    /\ process[a].written = 0
    /\ process' = [process EXCEPT ![a].returncode = Some(1)]
    /\ UNCHANGED <<main_vars, analyses, thread, project_root, reports_dir>>

\* app.py 103-112 and 199-206: communicate returns when the subprocess has
\* ended; a return code other than 0 marks the analysis failed
communicate(a) ==
    /\ thread[a].pc = "communicate"
    /\ process[a].returncode # NoResult
    /\ IF Get(process[a].returncode) = 0
       THEN /\ thread' = [thread EXCEPT ![a].pc = "exists"]
            /\ UNCHANGED analyses
       ELSE /\ thread' = [thread EXCEPT ![a].pc = "done"]
            /\ analyses' = SetStatus(analyses, a, "failed")
    /\ UNCHANGED <<main_vars, process, project_root, reports_dir>>

\* app.py 114-116: src.exists() for the next file of the loop
file_exists(a) ==
    /\ thread[a].pc = "exists"
    /\ thread[a].next <= Len(MoveOrder)
    /\ thread' =
          IF project_root[MoveOrder[thread[a].next]] # NoResult
          THEN [thread EXCEPT ![a].pc = "rename"]
          ELSE [thread EXCEPT ![a].next = @ + 1]
    /\ UNCHANGED <<main_vars, analyses, process, project_root, reports_dir>>

\* app.py 117-119: src.rename(dst) and files_moved.append(file); without
\* the file, rename raises and the handler of 220-229 marks the analysis
\* failed
rename(a) ==
    /\ thread[a].pc = "rename"
    /\ LET file == MoveOrder[thread[a].next]
       IN IF project_root[file] # NoResult
          THEN /\ reports_dir' = [reports_dir EXCEPT ![a][file] = project_root[file]]
               /\ project_root' = [project_root EXCEPT ![file] = NoResult]
               /\ thread' = [thread EXCEPT ![a].pc = "exists",
                                           ![a].next = @ + 1,
                                           ![a].files_moved = Append(@, file)]
               /\ UNCHANGED analyses
          ELSE /\ thread' = [thread EXCEPT ![a].pc = "done"]
               /\ analyses' = SetStatus(analyses, a, "failed")
               /\ UNCHANGED <<project_root, reports_dir>>
    /\ UNCHANGED <<main_vars, process>>

\* app.py 121-198 and 220-229: after the loop, no file moved raises and
\* marks the analysis failed; otherwise the row is completed with
\* report_path = analysis_<id>/report.html
complete(a) ==
    /\ thread[a].pc = "exists"
    /\ thread[a].next > Len(MoveOrder)
    /\ thread' = [thread EXCEPT ![a].pc = "done"]
    /\ analyses' =
          IF thread[a].files_moved = <<>>
          THEN SetStatus(analyses, a, "failed")
          ELSE [analyses EXCEPT ![a].status = "completed",
                                ![a].report_path = Some(a)]
    /\ UNCHANGED <<main_vars, process, project_root, reports_dir>>

\* app.py 15-18 and init_db: no analysis yet, no output file in the
\* working directory
FreshWeb ==
    /\ analyses = <<>>
    /\ thread = <<>>
    /\ process = <<>>
    /\ project_root = EmptyDir
    /\ reports_dir = <<>>

\* nothing enumerated, printed or written yet
FreshOutput ==
    /\ enumerations = {}
    /\ cli_output = NoResult
    /\ report = NoResult

\* attack_surface.py 44-47: a new AttackSurfaceAnalyzer, and nothing read yet
FreshAnalyzer ==
    /\ entry_points = <<>>
    /\ attack_surface = <<>>
    /\ surface_calls = 0
    /\ summary = NoResult
    /\ top_risks = NoResult
    /\ top_modules = NoResult

Init == dependencies = <<>> /\ Fresh /\ FreshAnalyzer /\ FreshOutput /\ FreshWeb

Next ==
    \/ parse_flat
    \/ build_graph
    \/ get_graph_info
    \/ detect_cycles
    \/ calculate_all_metrics
Spec == Init /\ [][Next]_vars

NextBuild == parse_package \/ build_graph
SpecBuild == Init /\ [][NextBuild]_vars

NextRebuild == parse_flat \/ other_project \/ build_graph
SpecRebuild == Init /\ [][NextRebuild]_vars

NextRegistry == parse_index \/ build_graph
SpecRegistry == Init /\ [][NextRegistry]_vars

NextLarge ==
    \/ parse_flat
    \/ parse_padding
    \/ build_graph
    \/ get_graph_info
    \/ detect_cycles
SpecLarge == Init /\ [][NextLarge]_vars

NextRun ==
    \/ parse_flat
    \/ parse_padding
    \/ build_graph
    \/ get_graph_info
    \/ print_graph_info
    \/ generate_report
SpecRun == Init /\ [][NextRun]_vars

NextWeb ==
    \/ start_analysis
    \/ \E a \in Ids :
          \/ launch(a)
          \/ main_writes(a)
          \/ main_exits(a)
          \/ main_fails(a)
          \/ communicate(a)
          \/ file_exists(a)
          \/ rename(a)
          \/ complete(a)
SpecWeb == Init /\ [][NextWeb]_vars

NextRisk == calculate_risk_level
SpecRisk == Init /\ [][NextRisk]_vars

NextTop == parse_flat \/ build_graph \/ get_top_modules
SpecTop == Init /\ [][NextTop]_vars

NextSurface ==
    \/ parse_chain
    \/ build_graph
    \/ get_graph_info
    \/ calculate_all_metrics
    \/ analyze_file
    \/ calculate_attack_surface
    \/ get_summary
    \/ get_top_risks
SpecSurface == Init /\ [][NextSurface]_vars

---------------------------------------------------------------------------
(* Properties *)

Built == builds = 1

Entries == {dependencies[i] : i \in 1..Len(dependencies)}

\* the module path without its extension
StripExt(module) == Replace(module, DotPy, <<>>)

\* the three forms of a raw import, in the order they are looked up
Tiers(dep) == <<dep, FirstSegment(dep, "."), Replace(dep, <<".">>, <<"/">>)>>

\* the registry entry of the first tier that hits, as a set: empty on a miss
FirstHit(mm, dep) ==
    LET hits == {t \in 1..3 : Tiers(dep)[t] \in DOMAIN mm}
    IN IF hits = {} THEN {}
       ELSE {mm[Tiers(dep)[CHOOSE t \in hits : \A u \in hits : t <= u]]}

PkgInit == Py(<<"pkg", "/", "__init__">>)
PkgSubMod == Py(<<"pkg", "/", "sub", "/", "mod">>)
ImportPkgSubMod == <<"pkg", ".", "sub", ".", "mod">>

\* C1: after build_graph on a fresh GraphBuilder the nodes are exactly the
\* keys of the input map, one node per key, modules without imports
\* included, and both endpoints of every edge are keys of the map.
C1_NodesAreKeys ==
    Built =>
        /\ Range(nodes) = Keys(dependencies)
        /\ Len(nodes) = Len(dependencies)
        /\ \A e \in edges : e[1] \in Keys(dependencies) /\ e[2] \in Keys(dependencies)

\* C1 witness: a built graph of three modules, one of them without imports,
\* one with an import that is no module of the map, and at least one edge.
C1_Witness ==
    /\ Built
    /\ Len(nodes) = 3
    /\ \E x \in Entries : x.deps = {}
    /\ \E x \in Entries : <<"os">> \in x.deps
    /\ edges # {}

\* C2: every raw import resolves to the registry entry of the first of the
\* lookups (raw string, first dotted segment, dots replaced by '/') that
\* hits; the edges of the built graph are exactly these resolutions that do
\* not lead back to the importing module, and an import that misses all
\* three adds nothing.
C2_TierOrder ==
    Built =>
        edges = {p \in Keys(dependencies) \X Keys(dependencies) :
                    /\ p[1] # p[2]
                    /\ \E x \in Entries :
                          /\ x.module = p[1]
                          /\ \E dep \in x.deps :
                                FirstHit(module_map(dependencies), dep) = {p[2]}}

\* C2 witness: 'pkg.sub.mod' is imported while both the 'pkg' candidate and
\* the 'pkg/sub/mod' candidate are registered, and the edge goes to 'pkg'.
C2_Witness ==
    /\ Built
    /\ {PkgInit, PkgSubMod} \subseteq Keys(dependencies)
    /\ \E x \in Entries :
          /\ ImportPkgSubMod \in x.deps
          /\ x.module \notin {PkgInit, PkgSubMod}
          /\ <<x.module, PkgInit>> \in edges
          /\ <<x.module, PkgSubMod>> \notin edges

\* C3: a raw import equal to the extension-stripped path of module M and to
\* the bare filename of another module N resolves to M, in whatever order M
\* and N stand in the map: every other module that imports it gets an edge
\* to M.
C3_ExactPathWins ==
    Built =>
        \A x \in Entries : \A dep \in x.deps :
            \A M, N \in Keys(dependencies) :
                ( /\ M # N
                  /\ dep = StripExt(M)
                  /\ dep = LastSegment(StripExt(N), "/")
                  /\ x.module # M )
                => <<x.module, M>> \in edges

\* C4: the built graph has no self-loop.
C4_NoSelfLoop == \A e \in edges : e[1] # e[2]

\* C4 witness: a built graph in which a module imports a name that resolves,
\* at the second or third tier, to the module itself.
C4_Witness ==
    /\ Built
    /\ \E x \in Entries : \E dep \in x.deps :
          /\ dep \notin DOMAIN module_map(dependencies)
          /\ FirstHit(module_map(dependencies), dep) = {x.module}

\* C5: in every result of get_graph_info, is_dag implies cycles = 0, so the
\* value -1 never comes with is_dag.
C5_DagHasZeroCycles ==
    graph_info # NoResult =>
        LET info == Get(graph_info)
        IN /\ info.is_dag => info.cycles = 0
           /\ ~(info.cycles = -1 /\ info.is_dag)

\* C5 witness: get_graph_info has returned for an acyclic graph of more than
\* 100 nodes that has edges.
C5_Witness ==
    /\ graph_info # NoResult
    /\ Get(graph_info).is_dag
    /\ Get(graph_info).nodes > InfoMaxNodes
    /\ edges # {}

\* an edge set that is one simple cycle: every node on it has one edge in
\* and one edge out, and the edges hang together
IsCycle(C) ==
    /\ C # {}
    /\ \A e \in C : /\ Cardinality({d \in C : d[1] = e[1]}) = 1
                    /\ Cardinality({d \in C : d[2] = e[1]}) = 1
                    /\ Cardinality({d \in C : d[1] = e[2]}) = 1
    /\ \A e \in C : {d[1] : d \in C} \subseteq ReachFrom(C, {e[1]})

\* the number of simple cycles of a graph
CycleCount(es) == Cardinality({C \in SUBSET es : IsCycle(C)})

Acyclic(es) == \A C \in SUBSET es : ~IsCycle(C)

\* C6: get_graph_info reports cycles = 0 for an acyclic graph, the number of
\* simple cycles for a cyclic graph of at most 100 nodes, and -1 for a cyclic
\* graph of more than 100 nodes, for which detect_cycles returns the empty
\* list.
C6_CycleCount ==
    /\ graph_info # NoResult =>
          LET info == Get(graph_info)
          IN /\ info.is_dag = Acyclic(edges)
             /\ Acyclic(edges) => info.cycles = 0
             /\ (~Acyclic(edges) /\ Len(nodes) <= 100) =>
                    info.cycles = CycleCount(edges)
             /\ (~Acyclic(edges) /\ Len(nodes) > 100) => info.cycles = -1
    /\ (cycles # NoResult /\ ~Acyclic(edges) /\ Len(nodes) > 100) =>
          Get(cycles) = <<>>

\* C6 witness: a cyclic graph of more than 100 nodes for which
\* get_graph_info has reported -1 and detect_cycles has returned.
C6_Witness ==
    /\ graph_info # NoResult
    /\ cycles # NoResult
    /\ Len(nodes) > 100
    /\ ~Get(graph_info).is_dag
    /\ Get(graph_info).cycles = -1

DegreeCentralityWithin(lo, hi) ==
    metrics # NoResult =>
        \A v \in Range(nodes) :
            /\ RatLeq(Rat(lo, 1), Get(metrics).degree_centrality[v])
            /\ RatLeq(Get(metrics).degree_centrality[v], Rat(hi, 1))

\* C7 as stated: the degree centrality of every module of a built graph lies
\* in [0, 1].
C7_CentralityInUnitInterval == DegreeCentralityWithin(0, 1)

\* C7 amended: the degree centrality of every module of a built graph lies
\* in [0, 2].
C7_CentralityAtMostTwo == DegreeCentralityWithin(0, 2)

\* C7 witness: the metrics of a graph of three modules in which one module
\* imports and is imported by both others.
C7_Witness ==
    /\ metrics # NoResult
    /\ Len(nodes) = 3
    /\ \E v \in Range(nodes) :
          /\ \A w \in Range(nodes) \ {v} : <<v, w>> \in edges /\ <<w, v>> \in edges
          /\ Get(metrics).degree_centrality[v] = Rat(2, 1)

RECURSIVE SumSeq(_)
SumSeq(q) == IF q = <<>> THEN 0 ELSE Head(q) + SumSeq(Tail(q))

\* the sum of the values of a map with integer values
SumMap(f) == LET ks == SetToSeq(DOMAIN f) IN SumSeq([i \in 1..Len(ks) |-> f[ks[i]]])

\* C8: the in_degree values and the out_degree values of the metrics both
\* add up to the edge count get_graph_info reports.
C8_DegreeSums ==
    (metrics # NoResult /\ graph_info # NoResult) =>
        /\ SumMap(Get(metrics).in_degree) = SumMap(Get(metrics).out_degree)
        /\ SumMap(Get(metrics).in_degree) = Get(graph_info).edges

\* C8 witness: metrics and graph info of a graph with at least three edges,
\* two of them between the same pair of modules.
C8_Witness ==
    /\ metrics # NoResult
    /\ graph_info # NoResult
    /\ Cardinality(edges) >= 3
    /\ \E e \in edges : <<e[2], e[1]>> \in edges

Band(distance, centrality) ==
    LET n == centrality.num
        d == centrality.den * (distance + 1)
    IN IF 10 * n > 2 * d THEN "CRITIQUE"
       ELSE IF 10 * n > d THEN "ELEVE"
       ELSE IF 100 * n > 5 * d THEN "MOYEN"
       ELSE "FAIBLE"

\* C10: the risk level is the band of centrality / (distance + 1): CRITIQUE
\* above 0.2, ELEVE above 0.1 up to 0.2, MOYEN above 0.05 up to 0.1, FAIBLE
\* otherwise; distance 2 with centrality 0.5 gives ELEVE.
C10_RiskBands ==
    risk_level # NoResult =>
        LET r == Get(risk_in)
        IN /\ Get(risk_level) = Band(r.distance, r.centrality)
           /\ (r.distance = 2 /\ r.centrality = Rat(1, 2)) => Get(risk_level) = "ELEVE"

\* C10 witness: the level returned for distance 2 and centrality 0.5.
C10_Witness ==
    /\ risk_level = Some("ELEVE")
    /\ risk_in = Some([distance |-> 2, centrality |-> Rat(1, 2)])

\* the severity of a level: CRITIQUE > ELEVE > MOYEN > FAIBLE
Severity(level) ==
    CASE level = "CRITIQUE" -> 4
      [] level = "ELEVE" -> 3
      [] level = "MOYEN" -> 2
      [] level = "FAIBLE" -> 1

\* C11: with the centrality fixed, a larger distance gives no higher score
\* and no more severe level; with the distance fixed, a larger centrality
\* gives no lower score and no less severe level.
C11_RiskMonotonic ==
    risk_level # NoResult =>
        LET r == Get(risk_in)
            score == RiskScore(r.distance, r.centrality)
            level == Get(risk_level)
        IN \A q \in RiskInputs :
              /\ (q.centrality = r.centrality /\ q.distance >= r.distance) =>
                    /\ RatLeq(RiskScore(q.distance, q.centrality), score)
                    /\ Severity(RiskLevel(q.distance, q.centrality)) <= Severity(level)
              /\ (q.distance = r.distance /\ RatLeq(r.centrality, q.centrality)) =>
                    /\ RatLeq(score, RiskScore(q.distance, q.centrality))
                    /\ Severity(RiskLevel(q.distance, q.centrality)) >= Severity(level)

\* C11 witness: a level has been returned that a larger distance strictly
\* lowers and a larger centrality strictly raises.
C11_Witness ==
    /\ risk_level = Some("ELEVE")
    /\ LET r == Get(risk_in)
       IN /\ \E q \in RiskInputs :
                /\ q.centrality = r.centrality /\ q.distance > r.distance
                /\ RiskLevel(q.distance, q.centrality) = "MOYEN"
          /\ \E q \in RiskInputs :
                /\ q.distance = r.distance /\ RatLess(r.centrality, q.centrality)
                /\ RiskLevel(q.distance, q.centrality) = "CRITIQUE"

RECURSIVE WithinHops(_, _, _)
\* the modules that k or fewer import edges lead to from the module s
WithinHops(es, s, k) ==
    IF k = 0 THEN {s}
    ELSE LET near == WithinHops(es, s, k - 1)
         IN near \cup {e[2] : e \in {d \in es : d[1] \in near}}

\* the hop counts k for which t is within k hops of s; the least one is the
\* length of a shortest path, and the set is empty when t cannot be reached
HopCounts(es, ns, s, t) == {k \in 0..Len(ns) : t \in WithinHops(es, s, k)}

Least(S) == CHOOSE k \in S : \A j \in S : k <= j

\* the records of the result for one entry point and one target
RecordsFor(module, entry, t) ==
    {i \in 1..Len(attack_surface) :
        /\ attack_surface[i].entry_point = module
        /\ attack_surface[i].entry_function = entry.function
        /\ attack_surface[i].target_module = t}

C13_CriticalFirst ==
    surface_calls >= 1 =>
        \A i, j \in 1..Len(attack_surface) :
            i < j => Severity(attack_surface[i].risk_level)
                        >= Severity(attack_surface[j].risk_level)

\* C14 as stated: after calculate_attack_surface, among records of the same
\* level the distances do not increase along the list.
C14_FartherFirstWithinBand ==
    surface_calls >= 1 =>
        \A i, j \in 1..Len(attack_surface) :
            (i < j /\ attack_surface[i].risk_level = attack_surface[j].risk_level)
            => attack_surface[i].distance >= attack_surface[j].distance

\* C14 amended: after calculate_attack_surface, among records of the same
\* level the distances do not decrease along the list (closer targets first).
C14_CloserFirstWithinBand ==
    surface_calls >= 1 =>
        \A i, j \in 1..Len(attack_surface) :
            (i < j /\ attack_surface[i].risk_level = attack_surface[j].risk_level)
            => attack_surface[i].distance <= attack_surface[j].distance

\* C14 witness: a result with two records of one level at different
\* distances, appended farther one first.
C14_Witness ==
    /\ surface_calls >= 1
    /\ Len(entry_points) = 2
    /\ \E i, j \in 1..Len(attack_surface) :
          /\ i < j
          /\ attack_surface[i].risk_level = attack_surface[j].risk_level
          /\ attack_surface[i].distance < attack_surface[j].distance
          /\ attack_surface[i].entry_point = entry_points[2].module
          /\ attack_surface[j].entry_point = entry_points[1].module

\* C15: what get_summary returns agrees with what the analyzer holds:
\* total_entry_points is the number of entry points over all modules,
\* entry_modules the number of modules with an entry point, critical_paths
\* is by_risk[CRITIQUE] + by_risk[ELEVE], and the four by_risk counts add up
\* to the number of records, which is total_attack_surface.
C15_SummaryAgrees ==
    summary # NoResult =>
        LET s == Get(summary)
            points == {p \in (1..Len(entry_points)) \X (1..MaxEntries + 1) :
                          p[2] <= Len(entry_points[p[1]].entries)}
        IN /\ s.total_entry_points = Cardinality(points)
           /\ s.entry_modules =
                 Cardinality({entry_points[m].module : m \in 1..Len(entry_points)})
           /\ s.critical_paths = s.by_risk["CRITIQUE"] + s.by_risk["ELEVE"]
           /\ s.by_risk["CRITIQUE"] + s.by_risk["ELEVE"]
                 + s.by_risk["MOYEN"] + s.by_risk["FAIBLE"] = Len(attack_surface)
           /\ s.total_attack_surface = Len(attack_surface)
           /\ DOMAIN s.by_risk = {"CRITIQUE", "ELEVE", "MOYEN", "FAIBLE"}

\* C15 witness: a summary of an analyzer with two entry points in one module
\* and records of the levels CRITIQUE and ELEVE.
C15_Witness ==
    /\ summary # NoResult
    /\ Get(summary).total_entry_points = 2
    /\ Get(summary).entry_modules = 1
    /\ Get(summary).by_risk["CRITIQUE"] >= 1
    /\ Get(summary).by_risk["ELEVE"] >= 1

\* C16: with no entry point, calculate_attack_surface leaves the list of
\* records empty and get_summary reports total_entry_points = 0; for an entry
\* point whose module is no node of the graph the distance map is empty and
\* the result holds no record of it.
C16_DegenerateEntries ==
    /\ (surface_calls >= 1 /\ entry_points = <<>>) => attack_surface = <<>>
    /\ (summary # NoResult /\ entry_points = <<>>) =>
          /\ Get(summary).total_entry_points = 0
          /\ Get(summary).total_attack_surface = 0
    /\ surface_calls >= 1 =>
          \A m \in 1..Len(entry_points) :
             entry_points[m].module \notin Range(nodes) =>
                /\ DistancesFromEntry(nodes, edges, entry_points[m].module) = <<>>
                /\ \A i \in 1..Len(attack_surface) :
                      attack_surface[i].entry_point # entry_points[m].module

\* C16 witness: the result of a calculation with two entry modules, one of
\* them no node of the graph, the other one with records.
C16_Witness ==
    /\ surface_calls >= 1
    /\ attack_surface # <<>>
    /\ \E m \in 1..Len(entry_points) : entry_points[m].module \notin Range(nodes)

\* C16 second witness state: a summary taken after a calculation without
\* entry points on a graph with edges.
C16_NoEntryPoints ==
    /\ surface_calls >= 1
    /\ entry_points = <<>>
    /\ summary # NoResult
    /\ edges # {}

\* C19: get_top_risks(n) returns the first min(n, total) records of the
\* list, and no record left out has a strictly more severe level than a
\* record returned.
C19_TopRisksAreRiskiest ==
    top_risks # NoResult =>
        LET top == Get(top_risks)
            total == Len(attack_surface)
            kept == IF top.top_n < total THEN top.top_n ELSE total
        IN /\ top.result = [i \in 1..kept |-> attack_surface[i]]
           /\ \A i \in 1..kept : \A j \in (kept + 1)..total :
                 Severity(attack_surface[j].risk_level)
                    <= Severity(attack_surface[i].risk_level)

\* the part of C19 that get_top_risks meets: the result is the first
\* min(n, total) records of the list
TopRisksIsPrefix ==
    top_risks # NoResult =>
        LET top == Get(top_risks)
            total == Len(attack_surface)
            kept == IF top.top_n < total THEN top.top_n ELSE total
        IN top.result = [i \in 1..kept |-> attack_surface[i]]

KnownMetrics ==
    {"degree_centrality", "betweenness_centrality", "in_degree", "out_degree"}

\* the scores of one known metric on the built graph
ScoresOf(metric) ==
    CASE metric = "degree_centrality" -> DegreeCentrality(nodes, edges)
      [] metric = "betweenness_centrality" -> BetweennessCentrality(nodes, edges)
      [] metric = "in_degree" -> [v \in Range(nodes) |-> InDegree(edges, v)]
      [] metric = "out_degree" -> [v \in Range(nodes) |-> OutDegree(edges, v)]

\* C17: for a known metric, get_top_modules(metric, n) returns min(n,
\* nodeCount) pairs of a module and its score, of distinct modules, in
\* non-increasing score order; no omitted module has a strictly higher score
\* than a returned one; modules of equal score come in node insertion order,
\* a returned one before an omitted one.
C17_TopModulesRanked ==
    (top_modules # NoResult /\ Get(top_modules).metric \in KnownMetrics) =>
        LET top == Get(top_modules)
            r == top.result
            score == ScoresOf(top.metric)
            returned == {r[i].module : i \in 1..Len(r)}
            Less(a, b) == ScoreLess(top.metric, a, b)
        IN /\ Len(r) = IF top.top_n < Len(nodes) THEN top.top_n ELSE Len(nodes)
           /\ Cardinality(returned) = Len(r)
           /\ \A i \in 1..Len(r) :
                 /\ r[i].module \in Range(nodes)
                 /\ r[i].score = score[r[i].module]
           /\ \A i, j \in 1..Len(r) :
                 i < j =>
                    /\ ~Less(r[i].score, r[j].score)
                    /\ r[i].score = r[j].score =>
                          Index(nodes, r[i].module) < Index(nodes, r[j].module)
           /\ \A i \in 1..Len(r) : \A v \in Range(nodes) \ returned :
                 /\ ~Less(r[i].score, score[v])
                 /\ r[i].score = score[v] =>
                       Index(nodes, r[i].module) < Index(nodes, v)

\* C17 witness: the two top modules by a known metric of a graph of three
\* modules with edges, where the two have the same score and come in the
\* order of insertion, b.py before a.py.
C17_Witness ==
    /\ top_modules # NoResult
    /\ Get(top_modules).metric \in KnownMetrics
    /\ Get(top_modules).top_n = 2
    /\ Len(nodes) = 3
    /\ edges # {}
    /\ LET r == Get(top_modules).result
       IN /\ Len(r) = 2
          /\ r[1].score = r[2].score
          /\ r[1].module = Py(<<"b">>)
          /\ r[2].module = Py(<<"a">>)

\* C18: get_top_modules with a metric name that is none of the four computed
\* metrics returns the empty list.
C18_UnknownMetricEmpty ==
    (top_modules # NoResult /\ Get(top_modules).metric \notin KnownMetrics) =>
        Get(top_modules).result = <<>>

\* C18 witness: get_top_modules has returned for an unknown metric name,
\* with n > 0, on a graph with edges.
C18_Witness ==
    /\ top_modules # NoResult
    /\ Get(top_modules).metric \notin KnownMetrics
    /\ Get(top_modules).top_n > 0
    /\ edges # {}

\* C20: the degree centrality of a module is (in-degree + out-degree) /
\* (node count - 1) in a graph of at least two modules, and 0 in a graph of
\* at most one module.
C20_DegreeCentralityFormula ==
    metrics # NoResult =>
        \A v \in Range(nodes) :
            Get(metrics).degree_centrality[v] =
                IF Len(nodes) <= 1 THEN Rat(0, 1)
                ELSE Rat(Get(metrics).in_degree[v] + Get(metrics).out_degree[v],
                         Len(nodes) - 1)

\* C21: in a run, nx.simple_cycles is never called on a graph of more than
\* 100 nodes, at none of the places that enumerate cycles.
C21_NoEnumerationAboveThreshold ==
    \A e \in enumerations : e.nodes <= DefaultMaxNodes

\* C22: neither main nor the report shows the value -1 as a number of
\* cycles.
C22_SentinelNeverShown ==
    /\ cli_output # NoResult => -1 \notin Get(cli_output).cycles_count
    /\ report # NoResult => -1 \notin Get(report).cycles_count

\* the edges a listed cycle runs along, the one from its last module back to
\* its first included
EdgesOf(c) == {<<c[i], c[(i % Len(c)) + 1]>> : i \in 1..Len(c)}

\* C23: for a graph of at most 100 nodes, every entry of the list
\* detect_cycles returns is a sequence of distinct modules whose consecutive
\* pairs, and the pair (last, first), are edges; every simple cycle of the
\* graph is listed exactly once up to rotation; and two modules that import
\* each other give the single cycle of the two and cycles = 1.
C23_CyclesListedOnce ==
    (cycles # NoResult /\ graph_info # NoResult /\ Len(nodes) <= DefaultMaxNodes) =>
        LET listed == Get(cycles)
        IN /\ \A i \in 1..Len(listed) :
                 /\ Len(listed[i]) >= 1
                 /\ Cardinality(Range(listed[i])) = Len(listed[i])
                 /\ EdgesOf(listed[i]) \subseteq edges
                 /\ IsCycle(EdgesOf(listed[i]))
           /\ \A C \in SUBSET edges :
                 IsCycle(C) =>
                    Cardinality({i \in 1..Len(listed) : EdgesOf(listed[i]) = C}) = 1
           /\ \A a, b \in Range(nodes) :
                 (a # b /\ edges = {<<a, b>>, <<b, a>>}) =>
                    /\ listed \in {<< <<a, b>> >>, << <<b, a>> >>}
                    /\ Get(graph_info).cycles = 1
                    /\ ~Get(graph_info).is_dag

\* C23 witness: detect_cycles has returned for the graph of b.py and a.py
\* importing each other, and for no other edge.
C23_Witness ==
    /\ cycles # NoResult
    /\ graph_info # NoResult
    /\ edges = {<<Py(<<"a">>), Py(<<"b">>)>>, <<Py(<<"b">>), Py(<<"a">>)>>}
    /\ Len(Get(cycles)) = 1

\* a second state of C23: two cycles that share a module are both listed
C23_SharedModule ==
    /\ cycles # NoResult
    /\ Len(nodes) = 3
    /\ Len(Get(cycles)) = 2
    /\ \E i \in 1..2 : Len(Get(cycles)[i]) = 3

\* C24: every record has a distance of at least 1 and a target module other
\* than its entry module.
C24_NoSelfTarget ==
    \A i \in 1..Len(attack_surface) :
        /\ attack_surface[i].distance >= 1
        /\ attack_surface[i].target_module # attack_surface[i].entry_point

\* C25: after any number of calculate_attack_surface calls with the same
\* graph, entry points and metrics, the list holds one record per entry
\* point and target, so a second call leaves the list of the first as it is.
C25_NoAccumulation ==
    surface_calls >= 1 =>
        \A i, j \in 1..Len(attack_surface) :
            (/\ attack_surface[i].entry_point = attack_surface[j].entry_point
             /\ attack_surface[i].entry_function = attack_surface[j].entry_function
             /\ attack_surface[i].target_module = attack_surface[j].target_module)
                => i = j

\* C26: the graph a build_graph call leaves depends only on the map passed
\* to that call, also on a GraphBuilder that has built before: its nodes
\* are the keys of the map and its edges those a new GraphBuilder resolves
\* from the map.
C26_BuildGraphStateless ==
    [][builds' = builds + 1 =>
          LET g == BuildGraphResult(<<>>, {}, dependencies)
          IN /\ Range(nodes') = Keys(dependencies)
             /\ nodes' = g.nodes
             /\ edges' = g.edges]_vars

RECURSIVE JoinPath(_)
\* the segments of a path, joined by slashes
JoinPath(segs) ==
    IF segs = <<>> THEN <<>>
    ELSE IF Len(segs) = 1 THEN segs[1]
    ELSE segs[1] \o <<"/">> \o JoinPath(Tail(segs))

\* an index module: the last segment of its path without extension is
\* __init__
IsIndexModule(module) ==
    LastSegment(StripExt(module), "/") = <<"__init__">>

\* the candidates an index module is to register: its parent path and the
\* last segment of the parent path; the others register their path without
\* extension and its last segment
Candidates(module) ==
    LET segs == Split(StripExt(module), "/")
        parent == SubSeq(segs, 1, Len(segs) - 1)
    IN IF IsIndexModule(module)
       THEN {JoinPath(parent), IF parent = <<>> THEN <<>> ELSE parent[Len(parent)]}
       ELSE {StripExt(module), segs[Len(segs)]}

\* the registry holds the candidates of the modules ms of the map, each
\* mapped to a module of the map that registers it, and nothing else
RegistryHolds(ms) ==
    LET mm == module_map(dependencies)
    IN /\ DOMAIN mm = UNION {Candidates(m) : m \in ms}
       /\ \A c \in DOMAIN mm : mm[c] \in ms /\ c \in Candidates(mm[c])

\* C27: the registry build_graph makes holds, for every index module, a
\* top-level __init__ included, the parent path and its last segment, for
\* every other module the path without extension and its last segment,
\* each mapped to a module of the map, and nothing else.
C27_RegistryCandidates ==
    builds >= 1 => RegistryHolds(Keys(dependencies))

\* the places in the map of the modules whose last path segment is name
Registrants(name) ==
    {i \in 1..Len(dependencies) :
        ~IsIndexModule(dependencies[i].module)
        /\ LastSegment(StripExt(dependencies[i].module), "/") = name}

\* the greatest number of a non-empty set of numbers
Greatest(S) == CHOOSE k \in S : \A j \in S : j <= k

\* C28: when two or more modules of the map have the same bare name, the
\* registry maps the name to the one that comes last in the map, and a
\* module other than these that imports the name, and nothing else, gets
\* one edge, to that last module.
C28_LastWriteWins ==
    builds >= 1 =>
        \A name \in {<<"a">>, <<"mod">>} :
            LET regs == Registrants(name)
            IN Cardinality(regs) >= 2 =>
                 LET last == dependencies[Greatest(regs)].module
                 IN /\ module_map(dependencies)[name] = last
                    /\ \A i \in 1..Len(dependencies) \ regs :
                          dependencies[i].deps = {name} =>
                             Successors(edges, dependencies[i].module) = {last}

\* C28 witness: a.py comes before pkg/a.py in the map, and a third module
\* that imports a has its only edge to pkg/a.py.
C28_Witness ==
    /\ builds >= 1
    /\ \E i, j, k \in 1..Len(dependencies) :
          /\ i < j
          /\ dependencies[i].module = Py(<<"a">>)
          /\ dependencies[j].module = Py(<<"pkg", "/", "a">>)
          /\ k \notin {i, j}
          /\ dependencies[k].deps = {<<"a">>}
          /\ Successors(edges, dependencies[k].module) = {Py(<<"pkg", "/", "a">>)}

\* a second state of C28: the other order, with the edge to a.py
C28_OtherOrder ==
    /\ builds >= 1
    /\ \E i, j, k \in 1..Len(dependencies) :
          /\ i < j
          /\ dependencies[i].module = Py(<<"pkg", "/", "a">>)
          /\ dependencies[j].module = Py(<<"a">>)
          /\ k \notin {i, j}
          /\ dependencies[k].deps = {<<"a">>}
          /\ Successors(edges, dependencies[k].module) = {Py(<<"a">>)}

\* C29: every record has one of the levels CRITIQUE, ELEVE and MOYEN, and
\* the summary counts no record of level FAIBLE.
C29_NeverFaible ==
    /\ \A i \in 1..Len(attack_surface) :
          attack_surface[i].risk_level \in {"CRITIQUE", "ELEVE", "MOYEN"}
    /\ summary # NoResult => Get(summary).by_risk["FAIBLE"] = 0

\* C29 witness: the summary of a list that holds a record of level MOYEN,
\* for a module 3 hops from the entry with a centrality of at most 2/5.
C29_Witness ==
    /\ summary # NoResult
    /\ Get(summary).total_attack_surface > 0
    /\ Get(summary).by_risk["MOYEN"] > 0
    /\ \E i \in 1..Len(attack_surface) :
          /\ attack_surface[i].risk_level = "MOYEN"
          /\ attack_surface[i].distance = CriticalDistance
          /\ RatLeq(attack_surface[i].centrality, Rat(2, 5))

\* C30: under every interleaving of the analyses started through
\* start_analysis, the directory of an analysis holds only files its own
\* subprocess wrote, and an analysis marked completed has, under its
\* report_path, a report its own subprocess wrote.
C30_OwnFilesOnly ==
    \A a \in Ids :
        /\ \A file \in OutputFiles : reports_dir[a][file] \subseteq {a}
        /\ analyses[a].status = "completed" =>
              /\ analyses[a].report_path = Some(a)
              /\ reports_dir[a]["report.html"] = Some(a)

=============================================================================
